---- MODULE Spec2Model ----
(***************************************************************************)
(* Debt ledger of socongno: customers, loan/payment transactions and the   *)
(* derived balance.  The state is the content of the two SQLite tables and *)
(* their AUTOINCREMENT counters; the operations are those of               *)
(* CustomerRepository, TransactionRepository, DebtService and              *)
(* CustomerController.  Around it are the connection's open transaction,   *)
(* the schema_version table of MigrationManager, and the database file     *)
(* and backup directory of BackupService.                                  *)
(*                                                                         *)
(* Amounts are Python floats stored in a REAL column (IEEE-754 binary64,   *)
(* round-to-nearest-even).  The model keeps the rounding and reduces the   *)
(* significand from 53 bits to MantBits bits, so that sums that do not fit *)
(* the significand occur with small amounts.                               *)
(***************************************************************************)
EXTENDS Integers, Sequences, FiniteSets, TLC

\* customers, transactions: the rows of the two tables, by id.
\* customer_seq, transaction_seq: the largest id AUTOINCREMENT has assigned.
\* deleted: the ids of the customers deleted so far (history).
\* now: the reading of the wall clock, datetime.now().
\* last: the last call made and what it did (history).
\* pending: the changes executed on the connection and not yet committed.
\* schema_version: the rows of the schema_version table, by version.
\* db_file: the database file socongno.db.
\* backup_dir: the files of the backups directory, by name.
\* inflight: the controller calls that have started and not yet returned.
VARIABLES customers, customer_seq, transactions, transaction_seq, deleted, now,
          last, pending, schema_version, db_file, backup_dir, inflight

\* What the operations on the two tables leave alone.
shell == <<schema_version, db_file, backup_dir, inflight>>

vars == <<customers, customer_seq, transactions, transaction_seq, deleted, now,
          last, pending, shell>>

(* ---------------------------- bounds ---------------------------------- *)

\* Rows ever inserted, into customers and transactions together, in one
\* behaviour.
MaxRows == 4
\* Width of the significand of the model's floating-point numbers.
MantBits == 2
\* Customers ever inserted in one behaviour of the customer operations.
MaxCustomers == 2
\* The largest reading of the wall clock.
MaxClock == 1
\* The largest reading of the wall clock while the backups are made.
MaxSeconds == 3
\* BackupService.max_backups, the number of backups kept.  The code keeps
\* 30; the model keeps fewer, so that the limit is reached within MaxSeconds
\* readings of the clock.
max_backups == 2

(* ---------------------------- inputs ---------------------------------- *)

\* Customer ids a caller may pass: every id assigned so far (in the table or
\* deleted), and one that has not been assigned.
CustomerIdInputs == 1..(customer_seq + 1)

TransactionIdInputs == 1..(transaction_seq + 1)

\* The readings of the wall clock.
ClockInputs == 0..MaxClock

\* A Python str is the sequence of its characters.
NameInputs == {<<"A", "n">>}

\* The name, phone and address of a Customer.
Fields(name, phone, address) == [name |-> name, phone |-> phone, address |-> address]

\* The fields of the Customer objects passed to CustomerRepository, and the
\* texts typed into the controller's form.
RepoFieldInputs ==
    {Fields(<<"A", "n">>, <<>>, <<>>), Fields(<<" ", "B">>, <<"9">>, <<"H">>)}
ControllerFieldInputs ==
    {Fields(<<>>, <<>>, <<>>), Fields(<<" ">>, <<"9">>, <<"H">>),
     Fields(<<" ", "B", " ">>, <<"9", " ">>, <<" ", "H">>)}

NoteInputs == {<<"x", "e">>}

\* A Python float argument: a finite number or NaN.
Num(v) == [nan |-> FALSE, v |-> v]
NaN == [nan |-> TRUE, v |-> 0]

AmountInputs == {Num(-1), Num(0), Num(1), Num(4), NaN}

\* The amounts passed with the clock running, and through the controller.
RepoAmountInputs == {Num(1)}
ControllerAmountInputs == {Num(1), NaN}

(* ------------------------ models/transaction.py ------------------------ *)

CHO_VAY == "CHO_VAY"
THU_NO == "THU_NO"
TransactionType == {CHO_VAY, THU_NO}

(* --------------------------- float arithmetic -------------------------- *)

Abs(x) == IF x < 0 THEN -x ELSE x

RECURSIVE Pow2(_)
Pow2(n) == IF n = 0 THEN 1 ELSE 2 * Pow2(n - 1)

\* The unit in the last place of a magnitude m: the least power of two u
\* with m \div u < 2^MantBits.
RECURSIVE UlpFrom(_, _)
UlpFrom(m, u) == IF m \div u < Pow2(MantBits) THEN u ELSE UlpFrom(m, 2 * u)

\* Round-to-nearest, ties-to-even, of the exact value x.
RoundToFloat(x) ==
    LET m == Abs(x)
        u == UlpFrom(m, 1)
        q == m \div u
        r == m % u
        up == (2 * r > u) \/ (2 * r = u /\ q % 2 = 1)
        mag == (IF up THEN q + 1 ELSE q) * u
    IN  IF x < 0 THEN -mag ELSE mag

FloatAdd(a, b) == RoundToFloat(a + b)
FloatSub(a, b) == RoundToFloat(a - b)

(* ------------------------------ storage -------------------------------- *)

\* PRAGMA foreign_keys = ON, set on the one connection when it is opened.
\* (PragmaForeignKeysOff: the connection left at SQLite's default.)
PragmaForeignKeysOff == FALSE
PragmaForeignKeys == TRUE

CustomerExists(customer_id) == customer_id \in DOMAIN customers

\* The ids of the transaction rows WHERE customer_id = ?.
\* (RowsOfAnyCustomer: the rows of the table without the WHERE clause.)
RowsOfAnyCustomer(customer_id) == DOMAIN transactions
RowsOfCustomer(customer_id) ==
    {t \in DOMAIN transactions : transactions[t].customer_id = customer_id}

\* The ids of the rows WHERE customer_id = ? AND transaction_type = ?.
\* (RowsOfTypeAnyCustomer: the WHERE clause without its customer_id term.)
RowsOfTypeAnyCustomer(customer_id, type) ==
    {t \in DOMAIN transactions : transactions[t].transaction_type = type}
RowsOfType(customer_id, type) ==
    {t \in RowsOfCustomer(customer_id) : transactions[t].transaction_type = type}

\* The rows of a set of ids as the sequence the scan visits: ascending rowid.
RECURSIVE InRowidOrder(_)
InRowidOrder(ids) ==
    IF ids = {} THEN <<>>
    ELSE LET lo == CHOOSE t \in ids : \A u \in ids : t <= u
         IN  <<lo>> \o InRowidOrder(ids \ {lo})

\* SUM(amount) over REAL values: a running double, one rounding per row.
\* null is SQL's answer for no rows.
RECURSIVE RunningSum(_, _)
RunningSum(acc, amounts) ==
    IF amounts = <<>> THEN acc
    ELSE RunningSum(FloatAdd(acc, Head(amounts)), Tail(amounts))

SqlSum(amounts) ==
    IF amounts = <<>> THEN [null |-> TRUE, v |-> 0]
    ELSE [null |-> FALSE, v |-> RunningSum(0, amounts)]

\* COALESCE(x, default)
Coalesce(x, default) == IF x.null THEN default ELSE x.v

\* The amount column of the rows of a set of ids, in scan order.
AmountsOf(ids) ==
    [i \in 1..Cardinality(ids) |-> transactions[InRowidOrder(ids)[i]].amount]

(* ------------------- repositories/transaction_repo.py ------------------ *)

\* TransactionRepository.get_customer_balance
get_customer_balance(customer_id) ==
    LET cho_vay == Coalesce(SqlSum(AmountsOf(RowsOfType(customer_id, CHO_VAY))), 0)
        thu_no == Coalesce(SqlSum(AmountsOf(RowsOfType(customer_id, THU_NO))), 0)
    IN  FloatSub(cho_vay, thu_no)

\* ORDER BY created_at DESC over the rows `ids` of a table: the sorter keeps
\* rows with equal created_at in scan order (ascending rowid).
RECURSIVE OrderByCreatedAtDesc(_, _)
OrderByCreatedAtDesc(table, ids) ==
    IF ids = {} THEN <<>>
    ELSE LET first == CHOOSE t \in ids : \A u \in ids :
                         \/ table[t].created_at > table[u].created_at
                         \/ (table[t].created_at = table[u].created_at /\ t <= u)
         IN  <<first>> \o OrderByCreatedAtDesc(table, ids \ {first})

\* Python's  x or ''  for a str x.
OrEmpty(x) == IF x = <<>> THEN <<>> ELSE x

\* The Transaction built from a row.
TransactionOf(row) == [row EXCEPT !.note = OrEmpty(row.note)]

\* TransactionRepository.get_by_customer_id: the customer's transactions.
\* (get_by_customer_id_unfiltered: the query without its WHERE clause.)
get_by_customer_id_unfiltered(customer_id) ==
    LET ids == OrderByCreatedAtDesc(transactions, DOMAIN transactions)
    IN  [i \in DOMAIN ids |-> TransactionOf(transactions[ids[i]])]
get_by_customer_id(customer_id) ==
    LET ids == OrderByCreatedAtDesc(transactions, RowsOfCustomer(customer_id))
    IN  [i \in DOMAIN ids |-> TransactionOf(transactions[ids[i]])]

\* TransactionRepository.get_all
TransactionRepo_get_all ==
    LET ids == OrderByCreatedAtDesc(transactions, DOMAIN transactions)
    IN  [i \in DOMAIN ids |-> TransactionOf(transactions[ids[i]])]

\* The storage statements an operation executes, in order.
SelectCustomer == "SELECT customers"
InsertTransaction == "INSERT transactions"
SelectTransactions == "SELECT transactions"
SumTransactions == "SELECT SUM transactions"
DeleteTransactionStmt == "DELETE transactions"
InsertCustomer == "INSERT customers"
SelectCustomers == "SELECT customers ORDER BY"
UpdateCustomerStmt == "UPDATE customers"
DeleteCustomerStmt == "DELETE customers"

\* cursor.execute of an INSERT, UPDATE or DELETE: the statement opens a
\* transaction on the connection when none is open, and its change stays
\* uncommitted in it.
Execute(uncommitted, stmt) == Append(uncommitted, stmt)

\* self.conn.commit(): every uncommitted change becomes durable.
\* (CommitNothing: the write without its commit.)
CommitNothing(uncommitted) == uncommitted
Commit(uncommitted) == <<>>

\* The outcome of a call: the exception raised ("none" when it returns).
NoException == "none"
CustomerNotFound == "ValueError: khong tim thay khach hang"
InvalidAmount == "ValueError: so tien phai lon hon 0"
IntegrityError == "sqlite3.IntegrityError"

NoTransaction ==
    [id |-> 0, customer_id |-> 0, amount |-> 0, transaction_type |-> "", note |-> <<>>,
     created_at |-> 0]

\* What a DebtService call does: the exception, the statements executed, the
\* row inserted (insert = TRUE) and the values returned.
Result(exc, stmts) ==
    [exc |-> exc, stmts |-> stmts, insert |-> FALSE, row |-> NoTransaction,
     balance |-> 0, history |-> <<>>]

\* TransactionRepository.create: the INSERT and its constraints.  A NaN is
\* bound as NULL and violates amount NOT NULL; with foreign keys enforced
\* the customer_id must reference a customers row.
TransactionRepo_create(customer_id, amount, type, note, stmts) ==
    IF amount.nan \/ (PragmaForeignKeys /\ ~CustomerExists(customer_id))
    THEN Result(IntegrityError, stmts \o <<InsertTransaction>>)
    ELSE [Result(NoException, stmts \o <<InsertTransaction>>) EXCEPT
            !.insert = TRUE,
            !.row = [id |-> transaction_seq + 1, customer_id |-> customer_id,
                     amount |-> amount.v, transaction_type |-> type,
                     note |-> note, created_at |-> now]]

(* ------------------------ services/debt_service.py --------------------- *)

\* Python's amount <= 0: false for NaN.  (LtZero: amount < 0.)
LtZero(amount) == ~amount.nan /\ amount.v < 0
LeZero(amount) == ~amount.nan /\ amount.v <= 0

\* DebtService.calculate_debt
\* (calculate_debt_unchecked: the balance query without the lookup.)
calculate_debt_unchecked(customer_id) ==
    [Result(NoException, <<SumTransactions, SumTransactions>>)
       EXCEPT !.balance = get_customer_balance(customer_id)]
calculate_debt(customer_id) ==
    IF ~CustomerExists(customer_id)
    THEN Result(CustomerNotFound, <<SelectCustomer>>)
    ELSE [Result(NoException, <<SelectCustomer, SumTransactions, SumTransactions>>)
            EXCEPT !.balance = get_customer_balance(customer_id)]

\* DebtService.add_loan
\* (add_loan_amount_unchecked: without the amount validation;
\*  add_loan_amount_first: the amount validated before the lookup.)
add_loan_amount_first(customer_id, amount, note) ==
    IF LeZero(amount)
    THEN Result(InvalidAmount, <<>>)
    ELSE IF ~CustomerExists(customer_id)
    THEN Result(CustomerNotFound, <<SelectCustomer>>)
    ELSE TransactionRepo_create(customer_id, amount, CHO_VAY, note, <<SelectCustomer>>)
add_loan_amount_unchecked(customer_id, amount, note) ==
    IF ~CustomerExists(customer_id)
    THEN Result(CustomerNotFound, <<SelectCustomer>>)
    ELSE TransactionRepo_create(customer_id, amount, CHO_VAY, note, <<SelectCustomer>>)
add_loan(customer_id, amount, note) ==
    IF ~CustomerExists(customer_id)
    THEN Result(CustomerNotFound, <<SelectCustomer>>)
    ELSE IF LeZero(amount)
    THEN Result(InvalidAmount, <<SelectCustomer>>)
    ELSE TransactionRepo_create(customer_id, amount, CHO_VAY, note, <<SelectCustomer>>)

\* DebtService.add_payment
\* (add_payment_customer_unchecked: without the customer lookup;
\*  add_payment_as_loan: the body of add_loan with its type left unchanged.)
add_payment_customer_unchecked(customer_id, amount, note) ==
    IF LeZero(amount)
    THEN Result(InvalidAmount, <<>>)
    ELSE TransactionRepo_create(customer_id, amount, THU_NO, note, <<>>)
add_payment_as_loan(customer_id, amount, note) ==
    IF ~CustomerExists(customer_id)
    THEN Result(CustomerNotFound, <<SelectCustomer>>)
    ELSE IF LeZero(amount)
    THEN Result(InvalidAmount, <<SelectCustomer>>)
    ELSE TransactionRepo_create(customer_id, amount, CHO_VAY, note, <<SelectCustomer>>)
add_payment(customer_id, amount, note) ==
    IF ~CustomerExists(customer_id)
    THEN Result(CustomerNotFound, <<SelectCustomer>>)
    ELSE IF LeZero(amount)
    THEN Result(InvalidAmount, <<SelectCustomer>>)
    ELSE TransactionRepo_create(customer_id, amount, THU_NO, note, <<SelectCustomer>>)

\* DebtService.get_customer_history
get_customer_history(customer_id) ==
    IF ~CustomerExists(customer_id)
    THEN Result(CustomerNotFound, <<SelectCustomer>>)
    ELSE [Result(NoException, <<SelectCustomer, SelectTransactions>>)
            EXCEPT !.history = get_by_customer_id(customer_id)]

(* -------------------- repositories/customer_repo.py -------------------- *)

\* A Customer object.  id 0 stands for None; NoCustomer for no object.
Customer(id, name, phone, address, created_at) ==
    [id |-> id, name |-> name, phone |-> phone, address |-> address,
     created_at |-> created_at]
NoCustomer == Customer(0, <<>>, <<>>, <<>>, 0)

\* The columns CustomerRepository.create binds to its INSERT.
\* (CustomerRowPhoneAsAddress: the address bound to the phone column too.)
CustomerRowPhoneAsAddress(customer) ==
    [name |-> customer.name, phone |-> customer.address,
     address |-> customer.address, created_at |-> customer.created_at]
CustomerRow(customer) ==
    [name |-> customer.name, phone |-> customer.phone,
     address |-> customer.address, created_at |-> customer.created_at]

\* The Customer that get_by_id and get_all build from row customer_id.
CustomerOf(customer_id) ==
    LET row == customers[customer_id]
    IN  Customer(customer_id, row.name, OrEmpty(row.phone), OrEmpty(row.address),
                 row.created_at)

\* CustomerRepository.get_by_id
get_by_id(customer_id) ==
    IF CustomerExists(customer_id) THEN CustomerOf(customer_id) ELSE NoCustomer

\* CustomerRepository.get_all
CustomerRepo_get_all ==
    LET ids == OrderByCreatedAtDesc(customers, DOMAIN customers)
    IN  [i \in DOMAIN ids |-> CustomerOf(ids[i])]

\* CustomerRepository.create: the table after the INSERT; AUTOINCREMENT
\* assigns the id after the largest ever assigned.
\* (CustomerRepo_create_rowid: the id column without AUTOINCREMENT: the id
\*  after the largest in the table.)
CustomerRepo_create_rowid(customer) ==
    LET top == IF DOMAIN customers = {} THEN 0
               ELSE CHOOSE c \in DOMAIN customers : \A d \in DOMAIN customers : d <= c
    IN  customers @@ ((top + 1) :> CustomerRow(customer))
CustomerRepo_create(customer) ==
    customers @@ ((customer_seq + 1) :> CustomerRow(customer))

\* CustomerRepository.update: the table after
\* UPDATE customers SET name = ?, phone = ?, address = ? WHERE id = ?.
\* (CustomerRepo_update_all: the UPDATE without its WHERE clause.)
CustomerRepo_update_all(customer) ==
    [c \in DOMAIN customers |->
        [customers[c] EXCEPT !.name = customer.name, !.phone = customer.phone,
                             !.address = customer.address]]
CustomerRepo_update(customer) ==
    [c \in DOMAIN customers |->
        IF c = customer.id
        THEN [customers[c] EXCEPT !.name = customer.name, !.phone = customer.phone,
                                  !.address = customer.address]
        ELSE customers[c]]

\* cursor.rowcount > 0 after UPDATE or DELETE ... WHERE id = ?.
\* (RowcountIgnored: True whatever the rowcount.)
RowcountIgnored(table, id) == TRUE
RowcountPositive(table, id) == id \in DOMAIN table

\* The transactions left once customers row customer_id is deleted: ON DELETE
\* CASCADE removes the customer's rows when foreign keys are enforced.
\* (CascadeNone: the delete leaves the transactions table as it is;
\*  CascadeAll: the delete empties the transactions table.)
CascadeNone(customer_id) == transactions
CascadeAll(customer_id) == <<>>
Cascade(customer_id) ==
    IF PragmaForeignKeys
    THEN [t \in DOMAIN transactions \ RowsOfCustomer(customer_id) |-> transactions[t]]
    ELSE transactions

(* ------------------- controllers/customer_controller.py ---------------- *)

\* str.strip()
RECURSIVE LStrip(_)
LStrip(s) == IF s # <<>> /\ Head(s) = " " THEN LStrip(Tail(s)) ELSE s
RECURSIVE RStrip(_)
RStrip(s) ==
    IF s # <<>> /\ s[Len(s)] = " " THEN RStrip(SubSeq(s, 1, Len(s) - 1)) ELSE s
Strip(s) == RStrip(LStrip(s))

\* not name or not name.strip()
\* (NameEmpty: not name, without the strip.)
NameEmpty(name) == name = <<>>
NameMissing(name) == name = <<>> \/ Strip(name) = <<>>

\* The storage is unavailable: the statement raises.
OperationalError == "sqlite3.OperationalError"

\* The class of a raised exception and its bases.
ClassOf(exc) ==
    IF exc \in {CustomerNotFound, InvalidAmount} THEN "ValueError" ELSE exc
Mro(cls) ==
    IF cls = "ValueError" THEN {"ValueError", "Exception"}
    ELSE {cls, "sqlite3.DatabaseError", "sqlite3.Error", "Exception"}
IsInstance(exc, cls) == cls \in Mro(ClassOf(exc))

\* str(e): the text the exception was raised with.
Str(exc) ==
    CASE exc = CustomerNotFound -> "Khong tim thay khach hang voi ID"
      [] exc = InvalidAmount -> "So tien phai lon hon 0"
      [] exc = IntegrityError -> "NOT NULL constraint failed: transactions.amount"
      [] exc = OperationalError -> "unable to open database file"

\* The messages of the controller.  A message is the sequence of the
\* fragments it is formatted from.
EmptyNameMessage == "Ten khach hang khong duoc de trong"
InvalidIdMessage == "ID khach hang khong hop le"
NotFoundMessage == "Khong tim thay khach hang"
CreatedMessage == "Tao khach hang thanh cong"
UpdatedMessage == "Cap nhat khach hang thanh cong"
DeletedMessage == "Xoa khach hang thanh cong"
LoanAddedMessage == "Da them khoan cho vay thanh cong"
PaymentAddedMessage == "Da thu no thanh cong"
ErrorPrefix == "Loi: "

\* The third component of a result.
NonePayload == [kind |-> "None", customer |-> NoCustomer, list |-> <<>>, debt |-> 0]
CustomerPayload(customer) == [NonePayload EXCEPT !.kind = "Customer", !.customer = customer]
ListPayload(list) == [NonePayload EXCEPT !.kind = "list", !.list = list]
FloatPayload(debt) == [NonePayload EXCEPT !.kind = "float", !.debt = debt]

\* How a controller operation ends: it returns (success, message, payload),
\* or lets an exception through (raised).  layer: where the failure it
\* reports was detected; log: what it wrote to the log about a failure.
Returned(success, message, payload, layer, log) ==
    [raised |-> NoException, success |-> success, message |-> message,
     payload |-> payload, layer |-> layer, log |-> log]
Propagated(exc) ==
    [raised |-> exc, success |-> FALSE, message |-> <<>>, payload |-> NonePayload,
     layer |-> "storage", log |-> <<>>]
NoResult == Returned(FALSE, <<>>, NonePayload, "none", <<>>)

\* except Exception as e: return False, f"Lỗi: {str(e)}", payload
\* (ExceptNothing: the operation without the clause: the exception goes on
\*  to the caller.)
ExceptNothing(exc, payload) == Propagated(exc)
ExceptException(exc, payload) ==
    IF IsInstance(exc, "Exception")
    THEN Returned(FALSE, <<ErrorPrefix, Str(exc)>>, payload, "storage", <<Str(exc)>>)
    ELSE Propagated(exc)

\* except ValueError as e: return False, str(e), payload
\* followed by the clause for Exception.
ExceptValueError(exc, payload) ==
    IF IsInstance(exc, "ValueError")
    THEN Returned(FALSE, <<Str(exc)>>, payload, "service", <<Str(exc)>>)
    ELSE ExceptException(exc, payload)

\* What a customer operation of the controller does: its result, the
\* statements executed, the exception the layer below raised, the Customer
\* passed to the repository, and what the repository did.
Outcome(result, exc, stmts, customer, write, ret) ==
    [result |-> result, exc |-> exc, stmts |-> stmts, customer |-> customer,
     write |-> write, ret |-> ret]

\* CustomerController.create_customer
create_customer(name, phone, address, fault) ==
    IF NameMissing(name)
    THEN Outcome(Returned(FALSE, <<EmptyNameMessage>>, NonePayload, "controller", <<>>),
                 NoException, <<>>, NoCustomer, FALSE, FALSE)
    ELSE LET customer == Customer(0, Strip(name), Strip(phone), Strip(address), now)
         IN  IF fault
             THEN Outcome(ExceptException(OperationalError, NonePayload),
                          OperationalError, <<InsertCustomer>>, customer, FALSE, FALSE)
             ELSE Outcome(Returned(TRUE, <<CreatedMessage>>,
                                   CustomerPayload([customer EXCEPT !.id = customer_seq + 1]),
                                   "none", <<>>),
                          NoException, <<InsertCustomer>>, customer, TRUE, FALSE)

\* CustomerController.update_customer
update_customer(customer, fault) ==
    IF NameMissing(customer.name)
    THEN Outcome(Returned(FALSE, <<EmptyNameMessage>>, NonePayload, "controller", <<>>),
                 NoException, <<>>, NoCustomer, FALSE, FALSE)
    ELSE IF customer.id = 0
    THEN Outcome(Returned(FALSE, <<InvalidIdMessage>>, NonePayload, "controller", <<>>),
                 NoException, <<>>, NoCustomer, FALSE, FALSE)
    ELSE IF fault
    THEN Outcome(ExceptException(OperationalError, NonePayload),
                 OperationalError, <<UpdateCustomerStmt>>, customer, FALSE, FALSE)
    ELSE IF RowcountPositive(customers, customer.id)
    THEN Outcome(Returned(TRUE, <<UpdatedMessage>>, NonePayload, "none", <<>>),
                 NoException, <<UpdateCustomerStmt>>, customer, TRUE, TRUE)
    ELSE Outcome(Returned(FALSE, <<NotFoundMessage>>, NonePayload, "repository", <<>>),
                 NoException, <<UpdateCustomerStmt>>, customer, TRUE, FALSE)

\* CustomerController.delete_customer
delete_customer(customer_id, fault) ==
    IF fault
    THEN Outcome(ExceptException(OperationalError, NonePayload),
                 OperationalError, <<DeleteCustomerStmt>>, NoCustomer, FALSE, FALSE)
    ELSE IF RowcountPositive(customers, customer_id)
    THEN Outcome(Returned(TRUE, <<DeletedMessage>>, NonePayload, "none", <<>>),
                 NoException, <<DeleteCustomerStmt>>, NoCustomer, TRUE, TRUE)
    ELSE Outcome(Returned(FALSE, <<NotFoundMessage>>, NonePayload, "repository", <<>>),
                 NoException, <<DeleteCustomerStmt>>, NoCustomer, TRUE, FALSE)

\* CustomerController.get_all_customers
get_all_customers(fault) ==
    IF fault
    THEN Outcome(ExceptException(OperationalError, ListPayload(<<>>)),
                 OperationalError, <<SelectCustomers>>, NoCustomer, FALSE, FALSE)
    ELSE Outcome(Returned(TRUE, <<>>, ListPayload(CustomerRepo_get_all), "none", <<>>),
                 NoException, <<SelectCustomers>>, NoCustomer, FALSE, FALSE)

\* What the DebtService call of a controller operation does when the
\* storage may be unavailable: the lookup is its first statement.
ServiceCall(r, fault) ==
    IF fault THEN Result(OperationalError, <<SelectCustomer>>) ELSE r

\* CustomerController.add_loan, given what DebtService.add_loan did.
Controller_add_loan(r) ==
    IF r.exc = NoException
    THEN Returned(TRUE, <<LoanAddedMessage>>, NonePayload, "none", <<>>)
    ELSE ExceptValueError(r.exc, NonePayload)

\* CustomerController.add_payment, given what DebtService.add_payment did.
Controller_add_payment(r) ==
    IF r.exc = NoException
    THEN Returned(TRUE, <<PaymentAddedMessage>>, NonePayload, "none", <<>>)
    ELSE ExceptValueError(r.exc, NonePayload)

\* CustomerController.get_customer_debt, given what calculate_debt did.
get_customer_debt(r) ==
    IF r.exc = NoException
    THEN Returned(TRUE, <<>>, FloatPayload(r.balance), "none", <<>>)
    ELSE ExceptValueError(r.exc, FloatPayload(0))

(* ------------------------- the files and the schema -------------------- *)

\* A file that exists, with its st_mtime.  NoFile: the path does not exist.
File(mtime) == [exists |-> TRUE, mtime |-> mtime]
NoFile == [exists |-> FALSE, mtime |-> 0]

\* The schema_version table once apply_migrations has run: one row for
\* migration 1.
InitialSchema == "Initial schema - customers and transactions tables"
Migrated == 1 :> [description |-> InitialSchema, applied_at |-> 0]

(* --------------------------- core/migrations.py ------------------------ *)

\* The migrations of apply_migrations, by version, in the order of its list.
Migrations == <<1>>

\* MigrationManager.get_current_version: MAX(version), 0 for no row.
get_current_version(table) ==
    IF DOMAIN table = {} THEN 0
    ELSE CHOOSE version \in DOMAIN table : \A other \in DOMAIN table : other <= version

\* if version > current_version
\* (VersionAny: every migration of the list is applied.)
VersionAny(version, current_version) == TRUE
VersionGreater(version, current_version) == version > current_version

\* The loop of apply_migrations from entry i of the list on: the table it
\* leaves, the versions whose migration it called and the exception that
\* ended it.  A migration runs init_schema and inserts its row; the INSERT
\* raises when the storage is unavailable or the version is already there
\* (PRIMARY KEY), and the exception is raised again.
RECURSIVE ApplyFrom(_, _, _, _, _)
ApplyFrom(i, current_version, table, applied_at, fault) ==
    IF i > Len(Migrations)
    THEN [table |-> table, called |-> <<>>, exc |-> NoException]
    ELSE LET version == Migrations[i]
         IN  IF ~VersionGreater(version, current_version)
             THEN ApplyFrom(i + 1, current_version, table, applied_at, fault)
             ELSE IF fault
             THEN [table |-> table, called |-> <<version>>, exc |-> OperationalError]
             ELSE IF version \in DOMAIN table
             THEN [table |-> table, called |-> <<version>>, exc |-> IntegrityError]
             ELSE LET row == [description |-> InitialSchema, applied_at |-> applied_at]
                      rest == ApplyFrom(i + 1, current_version,
                                        table @@ (version :> row), applied_at, fault)
                  IN  [rest EXCEPT !.called = <<version>> \o rest.called]

\* MigrationManager.apply_migrations
apply_migrations(table, applied_at, fault) ==
    ApplyFrom(1, get_current_version(table), table, applied_at, fault)

(* ------------------------- core/backup_service.py ---------------------- *)

\* datetime.now().strftime("%Y%m%d_%H%M%S") of a clock reading: the date and
\* the time of day.  The model's day has two readings.
Timestamp(t) == <<t \div 2, t % 2>>

\* datetime.now().date()
Today(t) == t \div 2

\* A file name is the sequence of its parts between "_", without ".db".
\* BackupService._get_backup_filename: f"socongno_backup_{timestamp}.db"
get_backup_filename(t) == <<"socongno", "backup">> \o Timestamp(t)

\* f"pre_restore_{self._get_backup_filename()}"
SafetyName(t) == <<"pre", "restore">> \o get_backup_filename(t)

\* self.backup_dir.glob("socongno_backup_*.db")
Glob(dir) ==
    {name \in DOMAIN dir : Len(name) >= 3 /\ SubSeq(name, 1, 2) = <<"socongno", "backup">>}

\* BackupService.get_backup_list: the names sorted by st_mtime, newest
\* first.  sorted() is stable and glob yields the names in the order of the
\* directory scan, which the file system chooses: files of equal st_mtime
\* come in any order.
get_backup_list(dir) ==
    {order \in [1..Cardinality(Glob(dir)) -> Glob(dir)] :
        /\ \A i, j \in DOMAIN order : order[i] = order[j] => i = j
        /\ \A i, j \in DOMAIN order : i < j => dir[order[i]].mtime >= dir[order[j]].mtime}

\* BackupService._cleanup_old_backups: unlink backup_files[max_backups:].
cleanup_old_backups(dir, backup_files) ==
    LET old == {backup_files[i] : i \in (max_backups + 1)..Len(backup_files)}
    IN  [name \in DOMAIN dir \ old |-> dir[name]]

\* The content of the database file: the tables.
Content ==
    [customers |-> customers, customer_seq |-> customer_seq,
     transactions |-> transactions, transaction_seq |-> transaction_seq,
     schema_version |-> schema_version]

\* shutil.copy2 into the backups directory: the copy has the content and the
\* st_mtime of its source.
copy2(dir, name, mtime, content) ==
    [n \in DOMAIN dir \cup {name} |->
        IF n = name THEN [mtime |-> mtime, content |-> content] ELSE dir[n]]

\* The safety copy of restore_from_backup: the database file copied to
\* pre_restore_<backup file name> at clock reading t.
\* (safety_backup_skipped: the restore without its safety copy.)
safety_backup_skipped(dir, t) == dir
safety_backup(dir, t) == copy2(dir, SafetyName(t), db_file.mtime, Content)

\* The loop of auto_backup_if_needed: a listed file whose third part is
\* today's date.
BackupToday(dir, today) == \E name \in Glob(dir) : name[3] = today

\* The steps of a file operation, and the error of a copy that fails.
CopyBackup == "copy2 database -> backup"
CopySafety == "copy2 database -> pre_restore"
CopyDatabase == "copy2 backup -> database"
OSError == "OSError"

(* ------------------------------ the calls ------------------------------ *)

\* The last call made: its name and arguments, whether the customer named
\* existed when it was made, and what it did.  ret: the bool a repository
\* returned; customer: the Customer passed to or returned by a repository;
\* list: the rows a list query returned; name: the name given to the
\* controller; result: what the controller returned; path: the file name
\* BackupService returned or was given (<<>> for None).
Call(op, customer_id, amount, note, existed, r, removed) ==
    [op |-> op, customer_id |-> customer_id, amount |-> amount, note |-> note,
     existed |-> existed, exc |-> r.exc, stmts |-> r.stmts, row |-> r.row,
     balance |-> r.balance, history |-> r.history, removed |-> removed,
     ret |-> FALSE, customer |-> NoCustomer, list |-> <<>>, name |-> <<>>,
     result |-> NoResult, path |-> <<>>]

Init ==
    /\ customers = <<>>
    /\ customer_seq = 0
    /\ transactions = <<>>
    /\ transaction_seq = 0
    /\ deleted = {}
    /\ now = 0
    /\ pending = <<>>
    /\ schema_version = Migrated
    /\ db_file = File(0)
    /\ backup_dir = <<>>
    /\ inflight = <<>>
    /\ last = Call("init", 0, Num(0), <<>>, FALSE, Result(NoException, <<>>), {})

\* The INSERT of a DebtService call that stores a row.
ApplyInsert(r) ==
    /\ r.insert => customer_seq + transaction_seq < MaxRows
    /\ transactions' = IF r.insert THEN transactions @@ (r.row.id :> r.row)
                       ELSE transactions
    /\ transaction_seq' = IF r.insert THEN r.row.id ELSE transaction_seq
    /\ pending' = IF r.insert THEN Commit(Execute(pending, InsertTransaction))
                  ELSE pending
    /\ UNCHANGED <<customers, customer_seq, deleted, now, shell>>

\* A DebtService call that may insert one row.
ApplyAdd(op, customer_id, amount, note, r) ==
    /\ ApplyInsert(r)
    /\ last' = Call(op, customer_id, amount, note, CustomerExists(customer_id), r, {})

AddLoanOf(amounts) ==
    \E customer_id \in CustomerIdInputs, amount \in amounts, note \in NoteInputs :
        ApplyAdd("add_loan", customer_id, amount, note,
                 add_loan(customer_id, amount, note))

AddLoan == AddLoanOf(AmountInputs)

AddPayment ==
    \E customer_id \in CustomerIdInputs, amount \in AmountInputs, note \in NoteInputs :
        ApplyAdd("add_payment", customer_id, amount, note,
                 add_payment(customer_id, amount, note))

CalculateDebt ==
    \E customer_id \in CustomerIdInputs :
        /\ last' = Call("calculate_debt", customer_id, Num(0), <<>>,
                        CustomerExists(customer_id), calculate_debt(customer_id), {})
        /\ UNCHANGED <<customers, customer_seq, transactions, transaction_seq,
                       deleted, now, pending, shell>>

GetCustomerHistory ==
    \E customer_id \in CustomerIdInputs :
        /\ last' = Call("get_customer_history", customer_id, Num(0), <<>>,
                        CustomerExists(customer_id),
                        get_customer_history(customer_id), {})
        /\ UNCHANGED <<customers, customer_seq, transactions, transaction_seq,
                       deleted, now, pending, shell>>

\* CustomerRepository.create of a Customer built at the call.
CreateCustomerOf(fields) ==
    \E f \in fields :
        LET customer == Customer(0, f.name, f.phone, f.address, now)
        IN  /\ customer_seq + transaction_seq < MaxRows
            /\ customers' = CustomerRepo_create(customer)
            /\ customer_seq' = customer_seq + 1
            /\ last' = [Call("create_customer", customer_seq + 1, Num(0), <<>>, FALSE,
                             Result(NoException, <<InsertCustomer>>), {})
                          EXCEPT !.customer = [customer EXCEPT !.id = customer_seq + 1]]
            /\ pending' = Commit(Execute(pending, InsertCustomer))
            /\ UNCHANGED <<transactions, transaction_seq, deleted, now, shell>>

CreateCustomer == CreateCustomerOf({Fields(name, <<>>, <<>>) : name \in NameInputs})

\* CustomerRepository.delete
DeleteCustomer ==
    \E customer_id \in CustomerIdInputs :
        LET existed == CustomerExists(customer_id)
            left == IF existed THEN Cascade(customer_id) ELSE transactions
        IN  /\ customers' = [c \in DOMAIN customers \ {customer_id} |-> customers[c]]
            /\ transactions' = left
            /\ deleted' = IF existed THEN deleted \cup {customer_id} ELSE deleted
            /\ last' = [Call("delete_customer", customer_id, Num(0), <<>>, existed,
                             Result(NoException, <<DeleteCustomerStmt>>),
                             DOMAIN transactions \ DOMAIN left)
                          EXCEPT !.ret = RowcountPositive(customers, customer_id)]
            /\ pending' = Commit(Execute(pending, DeleteCustomerStmt))
            /\ UNCHANGED <<customer_seq, transaction_seq, now, shell>>

\* TransactionRepository.delete
DeleteTransaction ==
    \E transaction_id \in TransactionIdInputs :
        /\ transactions' =
              [t \in DOMAIN transactions \ {transaction_id} |-> transactions[t]]
        /\ last' = [Call("delete_transaction", 0, Num(0), <<>>, FALSE,
                         Result(NoException, <<DeleteTransactionStmt>>),
                         DOMAIN transactions \cap {transaction_id})
                      EXCEPT !.ret = RowcountPositive(transactions, transaction_id),
                             !.row = IF transaction_id \in DOMAIN transactions
                                     THEN transactions[transaction_id]
                                     ELSE [NoTransaction EXCEPT !.id = transaction_id]]
        /\ pending' = Commit(Execute(pending, DeleteTransactionStmt))
        /\ UNCHANGED <<customers, customer_seq, transaction_seq, deleted, now, shell>>

\* The operations of the repositories and of DebtService within one reading
\* of the clock.
Next ==
    \/ CreateCustomer
    \/ DeleteCustomer
    \/ AddLoan
    \/ AddPayment
    \/ CalculateDebt
    \/ GetCustomerHistory
    \/ DeleteTransaction

Spec == Init /\ [][Next]_vars

(* -------------------- the repositories, with the clock ----------------- *)

\* The wall clock reads a later value. Objects built with no tick between
\* them carry the same reading.
Tick ==
    /\ now + 1 \in ClockInputs
    /\ now' = now + 1
    /\ UNCHANGED <<customers, customer_seq, transactions, transaction_seq,
                   deleted, last, pending, shell>>

\* A read that changes no table.
Read(call) ==
    /\ last' = call
    /\ UNCHANGED <<customers, customer_seq, transactions, transaction_seq,
                   deleted, now, pending, shell>>

RepoCreateCustomer ==
    /\ customer_seq < MaxCustomers
    /\ CreateCustomerOf(RepoFieldInputs)

\* CustomerRepository.get_by_id
RepoGetById ==
    \E customer_id \in CustomerIdInputs :
        Read([Call("get_by_id", customer_id, Num(0), <<>>, CustomerExists(customer_id),
                   Result(NoException, <<SelectCustomer>>), {})
                EXCEPT !.customer = get_by_id(customer_id)])

\* CustomerRepository.get_all
RepoGetAllCustomers ==
    Read([Call("get_all_customers", 0, Num(0), <<>>, FALSE,
               Result(NoException, <<SelectCustomers>>), {})
            EXCEPT !.list = CustomerRepo_get_all])

\* CustomerRepository.update
RepoUpdateCustomer ==
    \E customer_id \in CustomerIdInputs, f \in RepoFieldInputs :
        LET customer == Customer(customer_id, f.name, f.phone, f.address, now)
        IN  /\ customers' = CustomerRepo_update(customer)
            /\ last' = [Call("update_customer", customer_id, Num(0), <<>>,
                             CustomerExists(customer_id),
                             Result(NoException, <<UpdateCustomerStmt>>), {})
                          EXCEPT !.customer = customer,
                                 !.ret = RowcountPositive(customers, customer_id)]
            /\ pending' = Commit(Execute(pending, UpdateCustomerStmt))
            /\ UNCHANGED <<customer_seq, transactions, transaction_seq, deleted, now,
                           shell>>

\* TransactionRepository.get_all
RepoGetAllTransactions ==
    Read([Call("get_all_transactions", 0, Num(0), <<>>, FALSE,
               Result(NoException, <<SelectTransactions>>), {})
            EXCEPT !.list = TransactionRepo_get_all])

RepoAddLoan == AddLoanOf(RepoAmountInputs)

RepoNext ==
    \/ Tick
    \/ RepoCreateCustomer
    \/ RepoGetById
    \/ RepoGetAllCustomers
    \/ RepoUpdateCustomer
    \/ DeleteCustomer
    \/ RepoAddLoan
    \/ GetCustomerHistory
    \/ RepoGetAllTransactions

RepoSpec == Init /\ [][RepoNext]_vars

(* ----------------------------- the controller -------------------------- *)

\* The storage may be unavailable when an operation reaches it.
FaultInputs == BOOLEAN

\* A customer operation of the controller.
ApplyCustomer(op, customer_id, name, o, table) ==
    LET existed == CustomerExists(customer_id)
        gone == o.write /\ existed /\ customer_id \notin DOMAIN table
        left == IF gone THEN Cascade(customer_id) ELSE transactions
    IN  /\ customers' = IF o.write THEN table ELSE customers
        /\ transactions' = left
        /\ deleted' = IF gone THEN deleted \cup {customer_id} ELSE deleted
        /\ last' = [Call(op, customer_id, Num(0), <<>>, existed,
                         Result(o.exc, o.stmts), DOMAIN transactions \ DOMAIN left)
                      EXCEPT !.customer = o.customer, !.ret = o.ret,
                             !.name = name, !.result = o.result]
        /\ pending' = IF o.write THEN Commit(Execute(pending, Head(o.stmts)))
                      ELSE pending
        /\ UNCHANGED <<transaction_seq, now, shell>>

ControllerCreateCustomer ==
    \E f \in ControllerFieldInputs, fault \in FaultInputs :
        LET o == create_customer(f.name, f.phone, f.address, fault)
        IN  /\ o.write => (customer_seq < MaxCustomers
                           /\ customer_seq + transaction_seq < MaxRows)
            /\ customer_seq' = IF o.write THEN customer_seq + 1 ELSE customer_seq
            /\ ApplyCustomer("CustomerController.create_customer", customer_seq + 1,
                             f.name, o, CustomerRepo_create(o.customer))

ControllerUpdateCustomer ==
    \E customer_id \in {0} \cup CustomerIdInputs, f \in ControllerFieldInputs,
       fault \in FaultInputs :
        LET customer == Customer(customer_id, f.name, f.phone, f.address, now)
            o == update_customer(customer, fault)
        IN  /\ UNCHANGED customer_seq
            /\ ApplyCustomer("CustomerController.update_customer", customer_id,
                             f.name, o, CustomerRepo_update(o.customer))

ControllerDeleteCustomer ==
    \E customer_id \in CustomerIdInputs, fault \in FaultInputs :
        LET o == delete_customer(customer_id, fault)
        IN  /\ UNCHANGED customer_seq
            /\ ApplyCustomer("CustomerController.delete_customer", customer_id,
                             <<>>, o,
                             [c \in DOMAIN customers \ {customer_id} |-> customers[c]])

ControllerGetAllCustomers ==
    \E fault \in FaultInputs :
        LET o == get_all_customers(fault)
        IN  /\ UNCHANGED customer_seq
            /\ ApplyCustomer("CustomerController.get_all_customers", 0, <<>>, o,
                             customers)

\* A ledger operation of the controller: the DebtService call and the
\* result made of it.
ApplyLedger(op, customer_id, amount, note, r, result) ==
    /\ ApplyInsert(r)
    /\ last' = [Call(op, customer_id, amount, note, CustomerExists(customer_id), r, {})
                  EXCEPT !.result = result]

ControllerAddLoan ==
    \E customer_id \in CustomerIdInputs, amount \in ControllerAmountInputs,
       note \in NoteInputs, fault \in FaultInputs :
        LET r == ServiceCall(add_loan(customer_id, amount, note), fault)
        IN  ApplyLedger("CustomerController.add_loan", customer_id, amount, note, r,
                        Controller_add_loan(r))

ControllerAddPayment ==
    \E customer_id \in CustomerIdInputs, amount \in ControllerAmountInputs,
       note \in NoteInputs, fault \in FaultInputs :
        LET r == ServiceCall(add_payment(customer_id, amount, note), fault)
        IN  ApplyLedger("CustomerController.add_payment", customer_id, amount, note, r,
                        Controller_add_payment(r))

ControllerGetCustomerDebt ==
    \E customer_id \in CustomerIdInputs, fault \in FaultInputs :
        LET r == ServiceCall(calculate_debt(customer_id), fault)
        IN  ApplyLedger("CustomerController.get_customer_debt", customer_id, Num(0),
                        <<>>, r, get_customer_debt(r))

\* The operations of the controller within one reading of the clock.
ControllerNext ==
    \/ ControllerCreateCustomer
    \/ ControllerUpdateCustomer
    \/ ControllerDeleteCustomer
    \/ ControllerGetAllCustomers
    \/ ControllerAddLoan
    \/ ControllerAddPayment
    \/ ControllerGetCustomerDebt

ControllerSpec == Init /\ [][ControllerNext]_vars

(* ------------------ the ledger, with customer updates ------------------ *)

\* The operations of the repositories and of DebtService, the update of a
\* customer among them, within one reading of the clock.
RepoAddPayment ==
    \E customer_id \in CustomerIdInputs, amount \in RepoAmountInputs,
       note \in NoteInputs :
        ApplyAdd("add_payment", customer_id, amount, note,
                 add_payment(customer_id, amount, note))

LedgerNext ==
    \/ RepoCreateCustomer
    \/ RepoUpdateCustomer
    \/ DeleteCustomer
    \/ RepoAddLoan
    \/ RepoAddPayment
    \/ DeleteTransaction
    \/ CalculateDebt
    \/ GetCustomerHistory

LedgerSpec == Init /\ [][LedgerNext]_vars

(* -------------------------- the application shell ---------------------- *)

\* Before the first launch: no database file, no backup.
ShellInit ==
    /\ customers = <<>>
    /\ customer_seq = 0
    /\ transactions = <<>>
    /\ transaction_seq = 0
    /\ deleted = {}
    /\ now = 0
    /\ pending = <<>>
    /\ schema_version = <<>>
    /\ db_file = NoFile
    /\ backup_dir = <<>>
    /\ inflight = <<>>
    /\ last = Call("init", 0, Num(0), <<>>, FALSE, Result(NoException, <<>>), {})

ShellTick ==
    /\ now < MaxSeconds
    /\ now' = now + 1
    /\ UNCHANGED <<customers, customer_seq, transactions, transaction_seq,
                   deleted, last, pending, shell>>

\* A call of the shell that leaves the tables as they are.
ShellCall(op, exc, stmts) ==
    Call(op, 0, Num(0), <<>>, FALSE, Result(exc, stmts), {})

\* run_migrations: get_db() opens the database file, creating it when it
\* is not there; MigrationManager() ensures the schema_version table;
\* apply_migrations.
RunMigrations ==
    \E fault \in FaultInputs :
        LET r == apply_migrations(schema_version, now, fault)
        IN  /\ schema_version' = r.table
            /\ db_file' = IF db_file.exists /\ r.table = schema_version
                          THEN db_file ELSE File(now)
            /\ last' = [ShellCall("run_migrations", r.exc, <<>>)
                          EXCEPT !.list = r.called]
            /\ UNCHANGED <<customers, customer_seq, transactions, transaction_seq,
                           deleted, now, pending, backup_dir, inflight>>

\* CustomerRepository.create on the migrated database: the commit writes the
\* database file.
ShellCreateCustomer ==
    \E name \in NameInputs :
        LET customer == Customer(0, name, <<>>, <<>>, now)
        IN  /\ db_file.exists
            /\ schema_version # <<>>
            /\ customer_seq < MaxCustomers
            /\ customers' = CustomerRepo_create(customer)
            /\ customer_seq' = customer_seq + 1
            /\ pending' = Commit(Execute(pending, InsertCustomer))
            /\ db_file' = File(now)
            /\ last' = [Call("create_customer", customer_seq + 1, Num(0), <<>>, FALSE,
                             Result(NoException, <<InsertCustomer>>), {})
                          EXCEPT !.customer = [customer EXCEPT !.id = customer_seq + 1]]
            /\ UNCHANGED <<transactions, transaction_seq, deleted, now,
                           schema_version, backup_dir, inflight>>

\* The database file is lost (removed, or the data directory is new).
LoseDatabase ==
    /\ db_file.exists
    /\ db_file' = NoFile
    /\ customers' = <<>>
    /\ customer_seq' = 0
    /\ transactions' = <<>>
    /\ transaction_seq' = 0
    /\ schema_version' = <<>>
    /\ last' = ShellCall("lose_database", NoException, <<>>)
    /\ UNCHANGED <<deleted, now, pending, backup_dir, inflight>>

\* BackupService.backup_now, called as `op`.
DoBackupNow(op, fault) ==
    LET name == get_backup_filename(now)
        copied == copy2(backup_dir, name, db_file.mtime, Content)
    IN  /\ IF ~db_file.exists
           THEN /\ backup_dir' = backup_dir
                /\ last' = ShellCall(op, NoException, <<>>)
           ELSE IF fault
           THEN /\ backup_dir' = backup_dir
                /\ last' = ShellCall(op, OSError, <<CopyBackup>>)
           ELSE \E backup_files \in get_backup_list(copied) :
                /\ backup_dir' = cleanup_old_backups(copied, backup_files)
                /\ last' = [ShellCall(op, NoException, <<CopyBackup>>)
                              EXCEPT !.path = name]
        /\ UNCHANGED <<customers, customer_seq, transactions, transaction_seq,
                       deleted, now, pending, schema_version, db_file, inflight>>

BackupNow == \E fault \in FaultInputs : DoBackupNow("backup_now", fault)

\* BackupService.auto_backup_if_needed
AutoBackupIfNeeded ==
    \E fault \in FaultInputs :
        IF BackupToday(backup_dir, Today(now))
        THEN /\ last' = ShellCall("auto_backup_if_needed", NoException, <<>>)
             /\ UNCHANGED <<customers, customer_seq, transactions, transaction_seq,
                            deleted, now, pending, shell>>
        ELSE DoBackupNow("auto_backup_if_needed", fault)

\* The paths passed to restore_from_backup: a file of the backups directory,
\* or a name that may not be there.
PathInputs == DOMAIN backup_dir \cup {get_backup_filename(now)}

\* The copy that fails in restore_from_backup, if any.
RestoreFaultInputs == {"none", CopySafety, CopyDatabase}

\* BackupService.restore_from_backup
RestoreFromBackup ==
    \E backup_path \in PathInputs, fault \in RestoreFaultInputs :
        LET safety == db_file.exists
            saved == IF safety /\ fault # CopySafety
                     THEN safety_backup(backup_dir, now)
                     ELSE backup_dir
            steps == IF ~safety THEN <<CopyDatabase>>
                     ELSE IF fault = CopySafety THEN <<CopySafety>>
                     ELSE <<CopySafety, CopyDatabase>>
            failed == fault = steps[Len(steps)]
        IN  IF backup_path \notin DOMAIN backup_dir
            THEN /\ last' = [ShellCall("restore_from_backup", NoException, <<>>)
                               EXCEPT !.path = backup_path]
                 /\ UNCHANGED <<customers, customer_seq, transactions, transaction_seq,
                                deleted, now, pending, shell>>
            ELSE /\ backup_dir' = saved
                 /\ db_file' = IF failed THEN db_file ELSE File(saved[backup_path].mtime)
                 /\ customers' = IF failed THEN customers
                                 ELSE saved[backup_path].content.customers
                 /\ customer_seq' = IF failed THEN customer_seq
                                    ELSE saved[backup_path].content.customer_seq
                 /\ transactions' = IF failed THEN transactions
                                    ELSE saved[backup_path].content.transactions
                 /\ transaction_seq' = IF failed THEN transaction_seq
                                       ELSE saved[backup_path].content.transaction_seq
                 /\ schema_version' = IF failed THEN schema_version
                                      ELSE saved[backup_path].content.schema_version
                 /\ last' = [ShellCall("restore_from_backup",
                                       IF failed THEN OSError ELSE NoException, steps)
                               EXCEPT !.path = backup_path, !.ret = ~failed]
                 /\ UNCHANGED <<deleted, now, pending, inflight>>

\* The launches of the application and the uses of its File menu within one
\* reading of the clock.
ShellNext ==
    \/ RunMigrations
    \/ ShellCreateCustomer
    \/ LoseDatabase
    \/ BackupNow
    \/ AutoBackupIfNeeded
    \/ RestoreFromBackup

ShellSpec == ShellInit /\ [][ShellNext]_vars

\* The backups made as the clock runs.
BackupNext ==
    \/ ShellTick
    \/ RunMigrations
    \/ ShellCreateCustomer
    \/ BackupNow
    \/ AutoBackupIfNeeded

BackupSpec == ShellInit /\ [][BackupNext]_vars

(* --------------------- two calls on the one connection ----------------- *)

\* The connection is opened with check_same_thread=False, so a second thread
\* may run a call between two statements of the first.  One thread adds a
\* loan or a payment through the controller, another deletes a customer;
\* each statement and each commit is one step, and the commit of either
\* thread ends the transaction of the connection they share.

\* DebtService.add_loan and add_payment up to the INSERT: the lookup and the
\* validations.  A call they reject returns from the controller here.
AdderLookup ==
    /\ "adder" \notin DOMAIN inflight
    /\ \E op \in {"CustomerController.add_loan", "CustomerController.add_payment"},
          customer_id \in CustomerIdInputs, amount \in ControllerAmountInputs,
          note \in NoteInputs :
        LET loan == op = "CustomerController.add_loan"
            r == IF loan THEN add_loan(customer_id, amount, note)
                 ELSE add_payment(customer_id, amount, note)
        IN  IF r.exc \in {CustomerNotFound, InvalidAmount}
            THEN /\ last' = [Call(op, customer_id, amount, note,
                                  CustomerExists(customer_id), r, {})
                               EXCEPT !.result = IF loan THEN Controller_add_loan(r)
                                                 ELSE Controller_add_payment(r)]
                 /\ UNCHANGED inflight
            ELSE /\ inflight' = inflight @@
                       ("adder" :> [op |-> op, customer_id |-> customer_id,
                                    amount |-> amount, note |-> note,
                                    pc |-> "insert", row |-> NoTransaction,
                                    rowcount |-> FALSE, removed |-> {}])
                 /\ UNCHANGED last
    /\ UNCHANGED <<customers, customer_seq, transactions, transaction_seq,
                   deleted, now, pending, schema_version, db_file, backup_dir>>

\* TransactionRepository.create: cursor.execute of the INSERT.  When the
\* statement raises, the exception reaches the controller, which returns.
AdderInsert ==
    /\ "adder" \in DOMAIN inflight
    /\ inflight["adder"].pc = "insert"
    /\ LET call == inflight["adder"]
           loan == call.op = "CustomerController.add_loan"
           r == TransactionRepo_create(call.customer_id, call.amount,
                                       IF loan THEN CHO_VAY ELSE THU_NO,
                                       call.note, <<SelectCustomer>>)
       IN  IF r.insert
           THEN /\ customer_seq + transaction_seq < MaxRows
                /\ transactions' = transactions @@ (r.row.id :> r.row)
                /\ transaction_seq' = r.row.id
                /\ pending' = Execute(pending, InsertTransaction)
                /\ inflight' = [inflight EXCEPT !["adder"].pc = "commit",
                                                !["adder"].row = r.row]
                /\ UNCHANGED last
           ELSE /\ last' = [Call(call.op, call.customer_id, call.amount, call.note,
                                 TRUE, r, {})
                              EXCEPT !.result = IF loan THEN Controller_add_loan(r)
                                                ELSE Controller_add_payment(r)]
                /\ inflight' = [t \in DOMAIN inflight \ {"adder"} |-> inflight[t]]
                /\ UNCHANGED <<transactions, transaction_seq, pending>>
    /\ UNCHANGED <<customers, customer_seq, deleted, now, schema_version, db_file,
                   backup_dir>>

\* TransactionRepository.create: self.conn.commit(), then the return through
\* DebtService to the controller.
AdderCommit ==
    /\ "adder" \in DOMAIN inflight
    /\ inflight["adder"].pc = "commit"
    /\ LET call == inflight["adder"]
           loan == call.op = "CustomerController.add_loan"
           r == [Result(NoException, <<SelectCustomer, InsertTransaction>>)
                   EXCEPT !.insert = TRUE, !.row = call.row]
       IN  last' = [Call(call.op, call.customer_id, call.amount, call.note, TRUE, r, {})
                      EXCEPT !.result = IF loan THEN Controller_add_loan(r)
                                        ELSE Controller_add_payment(r)]
    /\ pending' = Commit(pending)
    /\ inflight' = [t \in DOMAIN inflight \ {"adder"} |-> inflight[t]]
    /\ UNCHANGED <<customers, customer_seq, transactions, transaction_seq,
                   deleted, now, schema_version, db_file, backup_dir>>

\* CustomerRepository.delete: cursor.execute of the DELETE.
DeleterExecute ==
    /\ "deleter" \notin DOMAIN inflight
    /\ \E customer_id \in CustomerIdInputs :
        LET existed == CustomerExists(customer_id)
            left == IF existed THEN Cascade(customer_id) ELSE transactions
        IN  /\ customers' = [c \in DOMAIN customers \ {customer_id} |-> customers[c]]
            /\ transactions' = left
            /\ deleted' = IF existed THEN deleted \cup {customer_id} ELSE deleted
            /\ inflight' = inflight @@
                  ("deleter" :> [op |-> "delete_customer", customer_id |-> customer_id,
                                 amount |-> Num(0), note |-> <<>>,
                                 pc |-> "commit", row |-> NoTransaction,
                                 rowcount |-> RowcountPositive(customers, customer_id),
                                 removed |-> DOMAIN transactions \ DOMAIN left])
    /\ pending' = Execute(pending, DeleteCustomerStmt)
    /\ UNCHANGED <<customer_seq, transaction_seq, now, last, schema_version, db_file,
                   backup_dir>>

\* CustomerRepository.delete: self.conn.commit() and the test of rowcount.
DeleterCommit ==
    /\ "deleter" \in DOMAIN inflight
    /\ LET call == inflight["deleter"]
       IN  last' = [Call(call.op, call.customer_id, Num(0), <<>>, call.rowcount,
                         Result(NoException, <<DeleteCustomerStmt>>), call.removed)
                      EXCEPT !.ret = call.rowcount]
    /\ pending' = Commit(pending)
    /\ inflight' = [t \in DOMAIN inflight \ {"deleter"} |-> inflight[t]]
    /\ UNCHANGED <<customers, customer_seq, transactions, transaction_seq,
                   deleted, now, schema_version, db_file, backup_dir>>

\* A customer is created while no call is in flight.
CreateBetweenCalls ==
    /\ inflight = <<>>
    /\ customer_seq < MaxCustomers
    /\ CreateCustomer

InterleavedNext ==
    \/ CreateBetweenCalls
    \/ AdderLookup
    \/ AdderInsert
    \/ AdderCommit
    \/ DeleterExecute
    \/ DeleterCommit

InterleavedSpec == Init /\ [][InterleavedNext]_vars

(* ------------------------- properties of the ledger -------------------- *)

AddOps == {"add_loan", "add_payment"}
ReadOps == {"calculate_debt", "get_customer_history"}
ServiceOps == AddOps \cup ReadOps

\* The argument is a number and is zero or negative.
NonPositive(amount) == ~amount.nan /\ amount.v <= 0

\* The sum of the amounts of a set of rows, in the reals.
RECURSIVE ExactSum(_)
ExactSum(ids) ==
    IF ids = {} THEN 0
    ELSE LET t == CHOOSE u \in ids : TRUE
         IN  transactions[t].amount + ExactSum(ids \ {t})

ExactBalance(customer_id) ==
    ExactSum(RowsOfType(customer_id, CHO_VAY)) - ExactSum(RowsOfType(customer_id, THU_NO))

\* The orders in which the calls that made a set of rows can be issued.
Orders(ids) ==
    {o \in [1..Cardinality(ids) -> ids] : \A i, j \in DOMAIN o : o[i] = o[j] => i = j}

AmountsOfType(order, type) ==
    LET kept == SelectSeq(order, LAMBDA t : transactions[t].transaction_type = type)
    IN  [i \in DOMAIN kept |-> transactions[kept[i]].amount]

\* The balance the code computes when the same calls are issued in `order`.
BalanceInOrder(order) ==
    FloatSub(Coalesce(SqlSum(AmountsOfType(order, CHO_VAY)), 0),
             Coalesce(SqlSum(AmountsOfType(order, THU_NO)), 0))

\* C1: for every existing customer, calculate_debt is the sum of its loan
\* amounts minus the sum of its payment amounts, and it is the same for
\* every order in which the same calls are issued.
C1_BalanceIsSumOfLoansMinusPayments ==
    \A c \in DOMAIN customers :
        /\ calculate_debt(c).exc = NoException
        /\ calculate_debt(c).balance = ExactBalance(c)
        /\ \A o \in Orders(RowsOfCustomer(c)) :
              BalanceInOrder(o) = calculate_debt(c).balance

\* C2: for every existing customer without transactions, calculate_debt
\* returns 0 and raises nothing.
C2_NoTransactionsBalanceZero ==
    /\ \A c \in DOMAIN customers :
          RowsOfCustomer(c) = {} =>
              /\ calculate_debt(c).exc = NoException
              /\ calculate_debt(c).balance = 0
    /\ (/\ last.op = "calculate_debt"
        /\ last.existed
        /\ RowsOfCustomer(last.customer_id) = {})
          => (last.exc = NoException /\ last.balance = 0)

\* calculate_debt has answered for the only customer ever created, after
\* the transactions added to it were deleted one by one.
C2_Witness ==
    /\ last.op = "calculate_debt"
    /\ last.existed
    /\ last.exc = NoException
    /\ last.balance = 0
    /\ customer_seq = 1
    /\ deleted = {}
    /\ transaction_seq > 1
    /\ transactions = <<>>

\* C3: add_loan and add_payment with amount <= 0 on an existing customer
\* raise the validation error and leave the transactions table as it was.
C3_NonPositiveAmountRejected ==
    [][(/\ last'.op \in AddOps
        /\ last'.existed
        /\ NonPositive(last'.amount))
          => (/\ last'.exc = InvalidAmount
              /\ transactions' = transactions
              /\ transaction_seq' = transaction_seq)]_vars

\* add_payment of 0 was rejected for a customer that has a transaction.
C3_Witness ==
    /\ last.op = "add_payment"
    /\ last.existed
    /\ last.amount = Num(0)
    /\ last.exc = InvalidAmount
    /\ RowsOfCustomer(last.customer_id) # {}

\* C4: add_loan and add_payment for a customer id that is not in customers
\* (never created, or deleted) raise not-found and leave the transactions
\* table as it was.
C4_UnknownCustomerRejected ==
    [][(/\ last'.op \in AddOps
        /\ ~last'.existed)
          => (/\ last'.exc = CustomerNotFound
              /\ transactions' = transactions
              /\ transaction_seq' = transaction_seq)]_vars

\* add_loan of a valid amount was rejected for a deleted customer.
C4_Witness ==
    /\ last.op = "add_loan"
    /\ last.customer_id \in deleted
    /\ last.amount = Num(4)
    /\ last.exc = CustomerNotFound

\* C5: once a customer is deleted, no transaction has its id (from the very
\* state the delete leaves), and get_customer_history and calculate_debt
\* raise not-found for it ever after.
C5_DeletedCustomerGone ==
    /\ \A c \in deleted :
          /\ RowsOfCustomer(c) = {}
          /\ get_customer_history(c).exc = CustomerNotFound
          /\ calculate_debt(c).exc = CustomerNotFound
    /\ (last.op \in ReadOps /\ last.customer_id \in deleted)
          => last.exc = CustomerNotFound

\* A customer with transactions was deleted, and they went with it.
C5_Witness ==
    /\ last.op = "delete_customer"
    /\ last.existed
    /\ last.customer_id \in deleted
    /\ last.removed # {}

\* C6: every stored transaction has amount > 0.
C6_AmountsPositive ==
    \A t \in DOMAIN transactions : transactions[t].amount > 0

\* A loan was stored after which an amount <= 0 was refused.
C6_Witness ==
    /\ last.op = "add_loan"
    /\ last.existed
    /\ NonPositive(last.amount)
    /\ RowsOfType(last.customer_id, CHO_VAY) # {}

\* C7: every stored transaction's customer_id is the id of a customers row.
C7_NoOrphanTransaction ==
    \A t \in DOMAIN transactions : CustomerExists(transactions[t].customer_id)

\* A customer with transactions was deleted while another customer keeps
\* its own.
C7_Witness ==
    /\ last.op = "delete_customer"
    /\ last.removed # {}
    /\ transactions # <<>>

\* C8: add_payment with amount > 0 on an existing customer succeeds whatever
\* the balance, and the balance afterwards is the balance before minus the
\* amount.
C8_PaymentLowersBalanceByAmount ==
    [][\A c \in CustomerIdInputs :
        (/\ last'.op = "add_payment"
         /\ last'.customer_id = c
         /\ last'.existed
         /\ ~last'.amount.nan
         /\ last'.amount.v > 0)
           => (/\ last'.exc = NoException
               /\ get_customer_balance(c)'
                    = get_customer_balance(c) - last'.amount.v)]_vars

TransactionTypesValid ==
    \A t \in DOMAIN transactions : transactions[t].transaction_type \in TransactionType

\* The step adds exactly one row, under an id never used before, equal to
\* `row`, and changes no other row.
AddsExactly(row) ==
    /\ row.id \notin DOMAIN transactions
    /\ row.id > transaction_seq
    /\ DOMAIN transactions' = DOMAIN transactions \cup {row.id}
    /\ transactions'[row.id] = row
    /\ \A t \in DOMAIN transactions : transactions'[t] = transactions[t]

\* C9: a successful add_loan adds exactly one transaction, of type CHO_VAY,
\* with the customer_id, amount and note given, and returns it with its new
\* id; add_payment likewise with THU_NO; so every stored transaction's type
\* is CHO_VAY or THU_NO.
C9_AddStoresOneTypedTransaction ==
    /\ []TransactionTypesValid
    /\ [][(last'.op \in AddOps /\ last'.exc = NoException)
            => (/\ last'.row.customer_id = last'.customer_id
                /\ last'.row.amount = last'.amount.v
                /\ ~last'.amount.nan
                /\ last'.row.note = last'.note
                /\ last'.row.transaction_type =
                     (IF last'.op = "add_loan" THEN CHO_VAY ELSE THU_NO)
                /\ AddsExactly(last'.row))]_vars

\* add_payment stored a payment with a note beside an earlier transaction.
C9_Witness ==
    /\ last.op = "add_payment"
    /\ last.exc = NoException
    /\ last.note # <<>>
    /\ last.row.id \in DOMAIN transactions
    /\ transactions[last.row.id].transaction_type = THU_NO
    /\ Cardinality(DOMAIN transactions) = 2

\* No statement on transactions precedes the customer lookup.
LookupFirst(stmts) ==
    /\ stmts # <<>>
    /\ Head(stmts) = SelectCustomer

\* C10: calculate_debt and get_customer_history raise not-found exactly when
\* the customer id is not in customers, and every DebtService operation
\* looks the customer up before any statement on transactions (none at all
\* when the customer is missing).
C10_ExistenceCheckedFirst ==
    /\ last.op \in ReadOps =>
          (IF last.existed THEN last.exc = NoException
                           ELSE last.exc = CustomerNotFound)
    /\ last.op \in ServiceOps =>
          /\ LookupFirst(last.stmts)
          /\ ~last.existed => last.stmts = <<SelectCustomer>>
    /\ \A c \in CustomerIdInputs :
          /\ calculate_debt(c).exc =
                (IF CustomerExists(c) THEN NoException ELSE CustomerNotFound)
          /\ get_customer_history(c).exc =
                (IF CustomerExists(c) THEN NoException ELSE CustomerNotFound)

\* get_customer_history was refused for an id never assigned while
\* transactions are stored.
C10_Witness ==
    /\ last.op = "get_customer_history"
    /\ ~last.existed
    /\ last.customer_id \notin deleted
    /\ last.exc = CustomerNotFound
    /\ transactions # <<>>

(* --------------------- properties of the repositories ------------------ *)

C12_UpdateReplacesThreeFields ==
    [][(last'.op = "update_customer" /\ last'.existed)
         => (/\ last'.ret
             /\ DOMAIN customers' = DOMAIN customers
             /\ \A c \in DOMAIN customers :
                   IF c = last'.customer_id
                   THEN /\ customers'[c].name = last'.customer.name
                        /\ customers'[c].phone = last'.customer.phone
                        /\ customers'[c].address = last'.customer.address
                        /\ customers'[c].created_at = customers[c].created_at
                   ELSE customers'[c] = customers[c]
             /\ customer_seq' = customer_seq
             /\ transactions' = transactions
             /\ transaction_seq' = transaction_seq)]_vars

\* A customer created at another reading of the clock was updated to new
\* name, phone and address while another customer and a transaction are
\* stored.
C12_Witness ==
    /\ last.op = "update_customer"
    /\ last.existed
    /\ last.ret
    /\ customers[last.customer_id].name = last.customer.name
    /\ customers[last.customer_id].phone # <<>>
    /\ customers[last.customer_id].created_at # now
    /\ \E c \in DOMAIN customers : customers[c].name # last.customer.name
    /\ transactions # <<>>

(* ---------------------- properties of the controller ------------------- *)

ControllerCustomerOps ==
    {"CustomerController.create_customer", "CustomerController.update_customer",
     "CustomerController.delete_customer", "CustomerController.get_all_customers"}
ControllerLedgerOps ==
    {"CustomerController.add_loan", "CustomerController.add_payment",
     "CustomerController.get_customer_debt"}
ControllerOps == ControllerCustomerOps \cup ControllerLedgerOps

\* C13: when update_customer or delete_customer reaches the repository with
\* an id that is not in customers and the storage answers, the repository
\* raises nothing and returns False, customers and transactions stay as
\* they were, and the controller returns (False, not-found message, None).
C13_MissingIdReportedNotFound ==
    [][(/\ last'.op \in {"CustomerController.update_customer",
                         "CustomerController.delete_customer"}
        /\ ~last'.existed
        /\ last'.stmts # <<>>
        /\ last'.exc # OperationalError)
          => (/\ last'.exc = NoException
              /\ ~last'.ret
              /\ customers' = customers
              /\ transactions' = transactions
              /\ last'.result.raised = NoException
              /\ ~last'.result.success
              /\ last'.result.message = <<NotFoundMessage>>
              /\ last'.result.payload = NonePayload)]_vars

\* delete_customer was called again for a customer already deleted, while
\* another customer and its transaction are stored.
C13_Witness ==
    /\ last.op = "CustomerController.delete_customer"
    /\ ~last.existed
    /\ last.customer_id \in deleted
    /\ ~last.ret
    /\ last.result.message = <<NotFoundMessage>>
    /\ customers # <<>>
    /\ transactions # <<>>

\* TransactionRepository.delete(id) removes the row of that id, if any, and
\* nothing else, and returns whether there was one.
DeleteRemovesExactly ==
    \A t \in TransactionIdInputs :
        (last'.op = "delete_transaction" /\ last'.row.id = t)
          => (/\ last'.ret = (t \in DOMAIN transactions)
              /\ DOMAIN transactions' = DOMAIN transactions \ {t}
              /\ \A u \in DOMAIN transactions' : transactions'[u] = transactions[u]
              /\ customers' = customers)

\* The balance calculate_debt gives for the owner of the deleted row is the
\* sum of the loans left minus the sum of the payments left.
BalanceAfterDeleteIsSumOfRest ==
    \A c \in DOMAIN customers :
        (last'.op = "delete_transaction" /\ last'.ret /\ last'.row.customer_id = c)
          => (/\ calculate_debt(c)'.exc = NoException
              /\ calculate_debt(c)'.balance = ExactBalance(c)')

\* C14: TransactionRepository.delete(id) removes exactly the transaction of
\* that id and returns True, or returns False and changes nothing when there
\* is none; calculate_debt of its customer then equals the sum of the loans
\* minus the sum of the payments over the transactions that remain.
C14_DeleteTransactionThenBalance ==
    [][DeleteRemovesExactly /\ BalanceAfterDeleteIsSumOfRest]_vars

\* The removal on its own, without the balance.
DeleteTransactionRemovesExactly == [][DeleteRemovesExactly]_vars

\* The list h holds each stored transaction of customer c once, and nothing
\* else.
IsHistoryOf(h, c) ==
    LET own == {t \in DOMAIN transactions : transactions[t].customer_id = c}
    IN  /\ Len(h) = Cardinality(own)
        /\ \A t \in own : \E i \in DOMAIN h : h[i] = transactions[t]
        /\ \A i \in DOMAIN h : h[i].customer_id = c

\* C15: for every existing customer c, get_customer_history(c) raises
\* nothing and returns the stored transactions whose customer_id is c, each
\* once, and no transaction of another customer.
C15_HistoryIsCustomersTransactions ==
    /\ \A c \in DOMAIN customers :
          /\ get_customer_history(c).exc = NoException
          /\ IsHistoryOf(get_customer_history(c).history, c)
    /\ (last.op = "get_customer_history" /\ last.existed)
          => (last.exc = NoException /\ IsHistoryOf(last.history, last.customer_id))

\* get_customer_history answered with the transaction of one customer while
\* another customer has a transaction of its own.
C15_Witness ==
    /\ last.op = "get_customer_history"
    /\ last.existed
    /\ Len(last.history) = 1
    /\ \E t \in DOMAIN transactions :
          transactions[t].customer_id # last.customer_id

\* No row of the list comes after a row inserted before it: ids are
\* assigned in the order of the inserts.
MostRecentFirst(list) ==
    \A i, j \in DOMAIN list : i < j => list[i].id > list[j].id

\* C16: CustomerRepository.get_all, TransactionRepository.get_by_customer_id
\* and TransactionRepository.get_all return their rows most recent first: a
\* row created later never comes after a row created earlier.
C16_ListsMostRecentFirst ==
    /\ MostRecentFirst(CustomerRepo_get_all)
    /\ \A c \in DOMAIN customers : MostRecentFirst(get_by_customer_id(c))
    /\ MostRecentFirst(TransactionRepo_get_all)

\* The operation below the controller ran to its end: it raised nothing,
\* reached the storage, found the row it was to update or delete, and the
\* row it was to insert is stored.
Completed ==
    /\ last.exc = NoException
    /\ last.stmts # <<>>
    /\ last.op \in {"CustomerController.update_customer",
                    "CustomerController.delete_customer"} => last.ret
    /\ last.op = "CustomerController.create_customer"
          => (/\ last.result.payload.customer.id = customer_seq
              /\ get_by_id(customer_seq) = last.result.payload.customer)
    /\ last.op \in {"CustomerController.add_loan", "CustomerController.add_payment"}
          => (/\ last.row.id = transaction_seq
              /\ transaction_seq \in DOMAIN transactions
              /\ transactions[transaction_seq] = last.row)

\* C17: every CustomerController operation returns (success, message,
\* payload), whatever its input and whatever the layers below raise; it
\* lets no exception through; and success is True only if the operation
\* below it completed.
C17_ControllerAlwaysReturnsTriple ==
    last.op \in ControllerOps
      => (/\ last.result.raised = NoException
          /\ last.result.success \in BOOLEAN
          /\ last.result.payload.kind \in {"None", "Customer", "list", "float"}
          /\ last.result.success => Completed
          /\ last.exc # NoException => ~last.result.success)

\* add_loan returned a failure for an amount the storage refused with an
\* IntegrityError.
C17_Witness ==
    /\ last.op = "CustomerController.add_loan"
    /\ last.existed
    /\ last.amount = NaN
    /\ last.exc = IntegrityError
    /\ last.result.raised = NoException
    /\ ~last.result.success

\* The text has a character that is not a blank.
NonBlank(text) == \E i \in DOMAIN text : text[i] # " "

\* Every stored customer has a name that is not empty once trimmed.
NamesNonBlank == \A c \in DOMAIN customers : NonBlank(customers[c].name)

\* C18: in every state reached through the controller, every stored customer
\* has a name that is non-empty after trimming; create_customer and
\* update_customer with an empty or all-blank name fail and leave customers
\* as they were.
C18_StoredNamesNonBlank ==
    /\ []NamesNonBlank
    /\ [][(/\ last'.op \in {"CustomerController.create_customer",
                            "CustomerController.update_customer"}
           /\ ~NonBlank(last'.name))
             => (/\ ~last'.result.success
                 /\ last'.result.raised = NoException
                 /\ customers' = customers
                 /\ customer_seq' = customer_seq)]_vars

\* update_customer refused an all-blank name for a stored customer whose
\* name was trimmed on create.
C18_Witness ==
    /\ last.op = "CustomerController.update_customer"
    /\ last.existed
    /\ last.name = <<" ">>
    /\ ~last.result.success
    /\ customers[last.customer_id].name = <<"B">>

\* The messages with which the controller reports a validation failure: an
\* empty name, an amount that is not positive, an unknown customer id.
ValidationMessages ==
    {<<EmptyNameMessage>>, <<InvalidIdMessage>>, <<NotFoundMessage>>,
     <<Str(InvalidAmount)>>, <<Str(CustomerNotFound)>>}

\* C19: every validation failure the controller reports was raised by the
\* service layer: the controller applies no rule of its own, and the
\* repositories reject nothing.
C19_ValidationOnlyInService ==
    (/\ last.op \in ControllerOps
     /\ ~last.result.success
     /\ last.result.message \in ValidationMessages)
       => (/\ last.result.layer = "service"
           /\ last.exc \in {InvalidAmount, CustomerNotFound}
           /\ LookupFirst(last.stmts))

\* C20: when a controller operation fails unexpectedly (the layer below
\* raised something other than a validation error), the message returned
\* does not carry the text of the failure; the text goes to the log only.
C20_UnexpectedFailureMessageOpaque ==
    (/\ last.op \in ControllerOps
     /\ last.exc # NoException
     /\ ~IsInstance(last.exc, "ValueError"))
       => (/\ ~last.result.success
           /\ \A i \in DOMAIN last.result.message :
                 last.result.message[i] # Str(last.exc)
           /\ \E i \in DOMAIN last.result.log : last.result.log[i] = Str(last.exc))

(* ------------------------ properties of the tables --------------------- *)

\* The rows of the transactions table with the five fields a caller gave
\* them.
Stored(table) ==
    [t \in DOMAIN table |->
        [id |-> table[t].id, customer_id |-> table[t].customer_id,
         amount |-> table[t].amount, transaction_type |-> table[t].transaction_type,
         note |-> table[t].note]]

\* The step changes the transactions table in one of the three ways: an
\* add_loan or add_payment inserts one row under an id never assigned
\* before, a delete by id removes that row, a customer delete removes the
\* rows of that customer.
InsertedOrDeleted ==
    LET added == DOMAIN transactions' \ DOMAIN transactions
        gone == DOMAIN transactions \ DOMAIN transactions'
    IN  \/ /\ last'.op \in AddOps
           /\ last'.exc = NoException
           /\ added = {transaction_seq + 1}
           /\ gone = {}
        \/ /\ last'.op = "delete_transaction"
           /\ added = {}
           /\ gone = {last'.row.id}
        \/ /\ last'.op = "delete_customer"
           /\ added = {}
           /\ gone = RowsOfCustomer(last'.customer_id)

\* C21: a stored transaction keeps its id, customer_id, amount,
\* transaction_type and note from its creation until its deletion, under
\* every operation (customer updates and other customers' operations
\* included), and the transactions table changes only by the insertion of
\* add_loan/add_payment, the deletion by id and the cascade deletion.
C21_TransactionsNeverEdited ==
    [][/\ \A t \in DOMAIN transactions \cap DOMAIN transactions' :
            /\ Stored(transactions')[t] = Stored(transactions)[t]
            /\ transactions[t].id = t
       /\ DOMAIN transactions' # DOMAIN transactions => InsertedOrDeleted
       /\ \A t \in DOMAIN transactions' : t <= transaction_seq']_vars

\* A customer that has a transaction was updated while another customer
\* has a transaction too.
C21_Witness ==
    /\ last.op = "update_customer"
    /\ last.ret
    /\ RowsOfCustomer(last.customer_id) # {}
    /\ \E c \in DOMAIN customers \ {last.customer_id} : RowsOfCustomer(c) # {}
    /\ customers[last.customer_id].name # <<"A", "n">>

\* The calls that write, and the statements that change a table.
WriteOps ==
    {"create_customer", "update_customer", "delete_customer", "delete_transaction"}
        \cup AddOps
WriteStmts ==
    {InsertCustomer, UpdateCustomerStmt, DeleteCustomerStmt, InsertTransaction,
     DeleteTransactionStmt}

WritesOf(stmts) == SelectSeq(stmts, LAMBDA stmt : stmt \in WriteStmts)

\* C22: when a repository write (customer create, update, delete,
\* transaction create, delete) returns normally, no change is left
\* uncommitted on the connection, and the transaction it committed holds its
\* one statement only: nothing an earlier call left uncommitted, and no
\* second write of its own.
C22_WritesCommittedOneByOne ==
    [][(last'.op \in WriteOps /\ last'.exc = NoException)
          => (/\ pending' = <<>>
              /\ pending = <<>>
              /\ Len(WritesOf(last'.stmts)) = 1)]_vars

\* A transaction was deleted by id after a customer and two transactions
\* had been written, and nothing is uncommitted.
C22_Witness ==
    /\ last.op = "delete_transaction"
    /\ last.ret
    /\ last.exc = NoException
    /\ transaction_seq >= 2
    /\ pending = <<>>

(* ------------------------- properties of the shell --------------------- *)

\* The versions of the list above the version `current`, in its order.
Due(current) == SelectSeq(Migrations, LAMBDA version : version > current)

Ascending(versions) ==
    \A i, j \in DOMAIN versions : i < j => versions[i] < versions[j]

\* C23: apply_migrations calls only the migrations whose version is
\* greater than the current version (the largest recorded, 0 when none),
\* in ascending order; every schema_version row there before the run is
\* there after it with the same values, a run that returns adds one row for
\* each migration it applied, and a run on an up-to-date database changes
\* nothing.
C23_MigrationsGatedByVersion ==
    [][last'.op = "run_migrations" =>
        LET due == Due(get_current_version(schema_version))
            called == last'.list
        IN  /\ Len(called) <= Len(due)
            /\ called = SubSeq(due, 1, Len(called))
            /\ Ascending(called)
            /\ \A version \in DOMAIN schema_version :
                  /\ version \in DOMAIN schema_version'
                  /\ schema_version'[version] = schema_version[version]
            /\ last'.exc = NoException =>
                  /\ called = due
                  /\ DOMAIN schema_version' =
                        DOMAIN schema_version \cup {due[i] : i \in DOMAIN due}
            /\ due = <<>> =>
                  /\ last'.exc = NoException
                  /\ schema_version' = schema_version
                  /\ db_file' = db_file
                  /\ customers' = customers]_vars

\* apply_migrations ran again on the migrated database, which holds a
\* customer, and called no migration.
C23_Witness ==
    /\ last.op = "run_migrations"
    /\ last.exc = NoException
    /\ last.list = <<>>
    /\ DOMAIN schema_version = {1}
    /\ customers # <<>>

BackupOps == {"backup_now", "auto_backup_if_needed"}

\* The backup named a was made before the backup named b: its timestamp is
\* the earlier one.
MadeBefore(a, b) == a[3] < b[3] \/ (a[3] = b[3] /\ a[4] < b[4])

\* C24: after every backup_now that returns a path the backups directory
\* holds at most max_backups files named socongno_backup_*.db, the backup
\* just made is one of them, and every backup deleted was made before
\* every backup kept; when the database file does not exist backup_now
\* returns None and the directory is as it was.
C24_BackupRetention ==
    [][(last'.op \in BackupOps /\ now' = now) =>
        /\ last'.path # <<>> =>
              /\ Cardinality(Glob(backup_dir')) <= max_backups
              /\ last'.path \in DOMAIN backup_dir'
              /\ \A gone \in Glob(backup_dir) \ Glob(backup_dir'),
                    kept \in Glob(backup_dir') : MadeBefore(gone, kept)
        /\ ~db_file.exists => (last'.path = <<>> /\ backup_dir' = backup_dir)]_vars

\* A backup file of the directory carries the date of clock reading t in
\* its name.
DatedAs(dir, t) ==
    \E name \in DOMAIN dir :
        /\ Len(name) = 4
        /\ name[1] = "socongno" /\ name[2] = "backup"
        /\ name[3] = t \div 2

\* C25: auto_backup_if_needed returns None and leaves the directory as it
\* is when a backup dated today exists; with the database present and the
\* copy succeeding it makes a backup when none is dated today; and a backup
\* it made is a backup dated today, so that a repeated call on the same day
\* makes no second one.
C25_AutoBackupOncePerDay ==
    [][(last'.op = "auto_backup_if_needed" /\ now' = now) =>
        /\ DatedAs(backup_dir, now) =>
              (last'.path = <<>> /\ backup_dir' = backup_dir)
        /\ (~DatedAs(backup_dir, now) /\ db_file.exists /\ last'.exc = NoException) =>
              last'.path # <<>>
        /\ last'.path # <<>> =>
              (~DatedAs(backup_dir, now) /\ DatedAs(backup_dir', now))]_vars

\* The name of the safety copy made at clock reading t.
PreRestoreName(t) == <<"pre", "restore", "socongno", "backup", t \div 2, t % 2>>

\* C26: restore_from_backup returns False and leaves the database as it is
\* when the backup file does not exist; when it overwrites an existing
\* database, the pre_restore copy in the backups directory holds what the
\* database held before; and when writing that copy fails the database is
\* left as it is and False is returned.
C26_RestoreKeepsSafetyCopy ==
    [][last'.op = "restore_from_backup" =>
        /\ last'.path \notin DOMAIN backup_dir =>
              /\ ~last'.ret
              /\ Content' = Content
              /\ db_file' = db_file
              /\ backup_dir' = backup_dir
        /\ (db_file.exists /\ (last'.ret \/ Content' # Content \/ db_file' # db_file)) =>
              /\ PreRestoreName(now) \in DOMAIN backup_dir'
              /\ backup_dir'[PreRestoreName(now)].content = Content
              /\ backup_dir'[PreRestoreName(now)].mtime = db_file.mtime
        /\ (last'.exc = OSError /\ last'.stmts = <<CopySafety>>) =>
              /\ ~last'.ret
              /\ Content' = Content
              /\ db_file' = db_file]_vars

\* A database holding a customer was replaced by a backup made before the
\* customer was created, and the safety copy holds the customer.
C26_Witness ==
    /\ last.op = "restore_from_backup"
    /\ last.ret
    /\ last.stmts = <<CopySafety, CopyDatabase>>
    /\ customers = <<>>
    /\ PreRestoreName(now) \in DOMAIN backup_dir
    /\ backup_dir[PreRestoreName(now)].content.customers # <<>>

(* --------------------- further properties of the ledger ---------------- *)

\* C27: the id a create assigns is in no row of the table and is the id of
\* no customer deleted before; the customer created has an empty history
\* and a balance of 0.
C27_CustomerIdsNeverReused ==
    [][last'.op = "create_customer" =>
        \A id \in DOMAIN customers' \ DOMAIN customers :
            /\ id = last'.customer.id
            /\ id \notin deleted
            /\ \A c \in DOMAIN customers \cup deleted : c < id
            /\ get_customer_history(id)'.exc = NoException
            /\ get_customer_history(id)'.history = <<>>
            /\ calculate_debt(id)'.exc = NoException
            /\ calculate_debt(id)'.balance = 0
            /\ \A t \in DOMAIN transactions' : transactions'[t].customer_id # id]_vars

\* A customer was created after the first customer, which had a
\* transaction, was deleted.
C27_Witness ==
    /\ last.op = "create_customer"
    /\ last.customer.id = 2
    /\ deleted = {1}
    /\ DOMAIN customers = {2}
    /\ transaction_seq >= 1
    /\ transactions = <<>>

\* C28: add_loan and add_payment called with a customer id that does not
\* exist and an amount <= 0 raise the not-found error, not the
\* invalid-amount error, and store no row.
C28_ExistenceCheckedBeforeAmount ==
    [][(/\ last'.op \in AddOps
        /\ ~last'.existed
        /\ NonPositive(last'.amount))
          => (/\ last'.exc = CustomerNotFound
              /\ last'.exc # InvalidAmount
              /\ transactions' = transactions
              /\ transaction_seq' = transaction_seq
              /\ customers' = customers)]_vars

\* add_loan of -1 to a customer that was deleted, while another customer
\* is stored, raised the not-found error.
C28_Witness ==
    /\ last.op = "add_loan"
    /\ last.amount = Num(-1)
    /\ last.customer_id \in deleted
    /\ ~last.existed
    /\ last.exc = CustomerNotFound
    /\ customers # <<>>

\* The customer an operation of the ledger acts on: the owner of the row for
\* the deletion of a transaction, the customer passed otherwise.
IsolatedOps ==
    {"add_loan", "add_payment", "update_customer", "delete_customer",
     "delete_transaction"}
ActsOn(call) ==
    IF call.op = "delete_transaction" THEN call.row.customer_id ELSE call.customer_id
QueryOps == {"calculate_debt", "get_customer_history"}

\* C29: add_loan, add_payment, update and delete of customer A, and the
\* deletion of one of A's transactions, leave the history and the balance of
\* every other stored customer B as they were; calculate_debt and
\* get_customer_history change nothing that is stored. The balance of B is
\* computed from B's CHO_VAY amounts and B's THU_NO amounts in scan order and
\* from nothing else, so it is unchanged when both sequences are. The history
\* of B, who is stored before and after, is read from the transactions table:
\* it is computed again after every step that changed the table.
C29_CustomerIsolation ==
    [][/\ last'.op \in IsolatedOps =>
            \A B \in DOMAIN customers \ {ActsOn(last')} :
                /\ B \in DOMAIN customers'
                /\ \/ transactions' = transactions
                   \/ get_customer_history(B)' = get_customer_history(B)
                /\ \A type \in TransactionType :
                      AmountsOf(RowsOfType(B, type))' = AmountsOf(RowsOfType(B, type))
       /\ last'.op \in QueryOps =>
            /\ customers' = customers
            /\ transactions' = transactions
            /\ customer_seq' = customer_seq
            /\ transaction_seq' = transaction_seq
            /\ pending' = pending
            /\ db_file' = db_file]_vars

\* Customer 1, who has transactions, was deleted while customer 2 has a
\* history and a balance of their own.
C29_Witness ==
    /\ last.op = "delete_customer"
    /\ last.customer_id = 1
    /\ last.removed # {}
    /\ 2 \in DOMAIN customers
    /\ get_by_customer_id(2) # <<>>
    /\ get_customer_balance(2) # 0

(* ---------------------- properties of interleaved calls ---------------- *)

\* The adding call has found its customer and has not yet executed its
\* INSERT, and the customer's row has been deleted since.
DeletedBetween ==
    /\ "adder" \in DOMAIN inflight
    /\ inflight["adder"].pc = "insert"
    /\ inflight["adder"].customer_id \notin DOMAIN customers

\* C30: the existence check and the INSERT of add_loan and add_payment are
\* separate steps; when the customer is deleted between them the INSERT is
\* rejected by the foreign key, no row is stored and the controller returns
\* a failed result; and whatever the interleaving, no transaction row is
\* stored for a customer that is not stored.
C30_InterleavedDeleteRejected ==
    [][/\ \A t \in DOMAIN transactions' :
             transactions'[t].customer_id \in DOMAIN customers'
       /\ (/\ DeletedBetween
           /\ \/ "adder" \notin DOMAIN inflight'
              \/ inflight'["adder"] # inflight["adder"])
            => /\ "adder" \notin DOMAIN inflight'
               /\ last'.op = inflight["adder"].op
               /\ last'.customer_id = inflight["adder"].customer_id
               /\ last'.existed
               /\ last'.exc = IntegrityError
               /\ last'.result.raised = NoException
               /\ ~last'.result.success
               /\ last'.result.message = <<ErrorPrefix, Str(IntegrityError)>>
               /\ transactions' = transactions
               /\ transaction_seq' = transaction_seq]_vars

\* An add_loan of 1 that had found its customer returned a failed result
\* with the foreign-key error, the delete that ran between its lookup and
\* its INSERT being not yet committed.
C30_Witness ==
    /\ last.op = "CustomerController.add_loan"
    /\ last.existed
    /\ last.amount = Num(1)
    /\ last.customer_id \in deleted
    /\ last.exc = IntegrityError
    /\ ~last.result.success
    /\ "deleter" \in DOMAIN inflight
    /\ inflight["deleter"].customer_id = last.customer_id
    /\ inflight["deleter"].rowcount
    /\ pending = <<DeleteCustomerStmt>>

====
